---------------------------- MODULE Spec2Model ----------------------------
(***************************************************************************)
(* A state-machine model of tinyserver.c: start-up (argument parsing, TLS  *)
(* context, listening socket), the sequential accept loop, the per-        *)
(* connection handler in TLS and plain mode, and the connection cleanup.   *)
(* Byte strings are TLA+ strings; one character is one byte.               *)
(***************************************************************************)
EXTENDS Integers, Sequences, FiniteSets, TLC

(***************************************************************************)
(* Program constants.                                                      *)
(***************************************************************************)
BUFFER_SIZE == 4096
METHOD_SIZE == 16
URL_SIZE == 256
HTML_SIZE == 1024
EXIT_FAILURE == 1

(***************************************************************************)
(* Bounds of the model.                                                    *)
(***************************************************************************)
MaxConns == 3

(***************************************************************************)
(* Bytes and C strings.  The byte 0x00 cannot be written in a TLA+ string; *)
(* it is represented by the character NUL below, which no request, token   *)
(* or template uses for anything else.                                     *)
(***************************************************************************)
NUL == "$"

At(s, i) == SubSeq(s, i, i)

Min(a, b) == IF a < b THEN a ELSE b

RECURSIVE Rep(_, _)
Rep(c, n) ==
    IF n = 0 THEN ""
    ELSE IF n % 2 = 1 THEN c \o Rep(c, n - 1)
    ELSE LET h == Rep(c, n \div 2) IN h \o h

\* isspace(3) as scanf uses it (the vertical tab has no TLA+ escape and is
\* not among the bytes the model sends).
IsSpace(c) == c \in {" ", "\t", "\n", "\r", "\f"}

\* The C string held in a byte sequence: the bytes before the first 0x00.
CString(b) ==
    LET nuls == {i \in 1..Len(b) : At(b, i) = NUL}
    IN  IF nuls = {} THEN b
        ELSE SubSeq(b, 1, (CHOOSE i \in nuls : \A j \in nuls : i <= j) - 1)

\* strlen(3)
strlen(b) == Len(CString(b))

\* The index of the first byte of s at or after position i that satisfies
\* (space = TRUE) isspace or (space = FALSE) not isspace; Len(s) + 1 if none.
Scan(s, i, space) ==
    LET hits == {k \in i..Len(s) : IsSpace(At(s, k)) = space}
    IN  IF hits = {} THEN Len(s) + 1
        ELSE CHOOSE k \in hits : \A j \in hits : k <= j

\* One "%s" conversion of scanf on the C string s from position i: skip
\* white space, then take the bytes up to the next white space or the end.
\* found = FALSE is an input failure (end of string before any byte).
ScanToken(s, i) ==
    LET b == Scan(s, i, FALSE)
        e == Scan(s, b, TRUE)
    IN  [found |-> b <= Len(s), tok |-> SubSeq(s, b, e - 1), next |-> e]

\* "%zu" / "%d": decimal digits of a natural number.
Digit(d) == At("0123456789", d + 1)

RECURSIVE Dec(_)
Dec(n) == IF n < 10 THEN Digit(n) ELSE Dec(n \div 10) \o Digit(n % 10)


(***************************************************************************)
(* Parsing and response building (pure functions of the handler).          *)
(***************************************************************************)

\* The stack placement of method[16] and url[256], which the language
\* leaves to the build and which decides what an unbounded "%s" store does:
\*   "trap"        a store past the end of a buffer terminates the process
\*                 (fortified or instrumented build, guard page)
\*   "method_url"  url starts right after method's last byte
\*   "url_method"  method starts right after url's last byte
\* In the last two the buffer that has no neighbour spills into storage that
\* nothing reads before the response is sent.
Builds == {"trap", "method_url", "url_method"}

\* char method[16] = {0}, url[256] = {0};  old is what the storage held.
ZeroInit_Stale(old) == old
ZeroInit(old) == ""

\* sscanf(request_buffer, "%s %s", method, url) on buffers holding the C
\* strings m0 and u0.  "%s" has no field width: a token of n bytes stores
\* n + 1 bytes whatever the size of its buffer.  stored1 and stored2 count
\* the bytes stored; method and url are the C strings the two buffers hold
\* afterwards under the given placement.
sscanf(buf, m0, u0, placement) ==
    LET s  == CString(buf)
        t1 == ScanToken(s, 1)
        t2 == IF t1.found THEN ScanToken(s, t1.next)
              ELSE [found |-> FALSE, tok |-> "", next |-> Len(s) + 1]
        n1 == Len(t1.tok)
        n2 == Len(t2.tok)
        w1 == IF t1.found THEN n1 + 1 ELSE 0
        w2 == IF t2.found THEN n2 + 1 ELSE 0
        m  == IF t1.found THEN t1.tok ELSE m0
        u  == IF t2.found THEN t2.tok ELSE u0
        \* method's excess bytes land in url[0..] before url is stored
        spill  == IF t2.found THEN t2.tok ELSE SubSeq(t1.tok, METHOD_SIZE + 1, n1)
        \* url's excess bytes land in method[0..] after method was stored
        excess == SubSeq(t2.tok, URL_SIZE + 1, n2)
    IN  [ret     |-> IF ~t1.found THEN -1 ELSE IF ~t2.found THEN 1 ELSE 2,
         stored1 |-> w1,
         stored2 |-> w2,
         method  |-> IF placement = "method_url" /\ w1 > METHOD_SIZE
                        THEN SubSeq(t1.tok, 1, METHOD_SIZE) \o spill
                     ELSE IF placement = "url_method" /\ w2 > URL_SIZE
                        THEN excess
                     ELSE m,
         url     |-> IF placement = "method_url" /\ w1 > METHOD_SIZE
                        THEN spill
                     ELSE u]

\* The first sprintf: the HTML body of the TLS branch and of the plain branch.
\* m and u are the C strings "%s" reads from method and url.
HtmlContent(tls, m, u) ==
    "<!DOCTYPE html><html><head><title>"
    \o (IF tls THEN "Tiny SSL Server" ELSE "Tiny HTTP Server")
    \o "</title></head>"
    \o "<body><h1>"
    \o (IF tls THEN "Secure HTTPS Server!" ELSE "Plain HTTP Server!")
    \o "</h1><p>Method: " \o m \o "</p><p>URL: " \o u
    \o "</p></body></html>"

StatusLine_404 == "HTTP/1.1 404 Not Found"
StatusLine == "HTTP/1.1 200 OK"

\* The second sprintf: status line, headers, blank line, body.  html is the
\* C string in html_content, so strlen(html_content) is Len(html).
HttpResponse(html) ==
    StatusLine \o "\r\nContent-Type: text/html\r\nContent-Length: "
    \o Dec(Len(html)) \o "\r\n\r\n" \o html


(***************************************************************************)
(* State.                                                                  *)
(***************************************************************************)
VARIABLES
    pc,              \* position of main
    argv,            \* the command-line arguments after argv[0]
    build,           \* the stack placement the build chose (see Builds)
    use_tls,         \* the global flag
    ctx,             \* SSL_CTX *ctx: what the context holds; {} is NULL
    sock,            \* the listening socket: none, created, reuse, bound, listening
    nconn,           \* connections accepted so far; the current one is nconn
    client,          \* int client: the connection the descriptor refers to
    ssl,             \* SSL *ssl: 0 is NULL, h > 0 the session made for connection h
    bytes,           \* int bytes
    request_buffer,  \* the bytes the read stored
    method,          \* the C string in method[16] (and beyond, after an overflow)
    url,             \* the C string in url[256]
    html_content,    \* the C string in html_content[1024]
    http_response,   \* the C string in http_response[BUFFER_SIZE]
    exit_status,     \* -1 while running, else the status passed to exit
    signal,          \* "none", or the signal that terminated the process
    cause,           \* the call whose failure ended the process
    \* the environment and the record of what main did to it
    unread,          \* bytes the current peer sent that main has not read
    wire,            \* the response bytes delivered to the current peer
    hs,              \* the current connection's handshake: none, ok, failed
    rd,              \* the current connection's read: none, data, eof, failed
    wr,              \* the current connection's write: none, full, short, failed
    chan,            \* the channel the current connection's read and write used
    stream,          \* per connection: "unborn", "open", "closed"
    closes,          \* per connection: number of close(client) calls
    sess,            \* per session: unborn, new, established, failed, shutdown, freed
    shutdowns,       \* per session: number of SSL_shutdown calls
    frees,           \* per session: number of SSL_free calls
    stored,          \* bytes the current connection stored into method, url,
                     \* html_content and http_response (terminators included)
    memo             \* a request/response pair remembered from an earlier connection

progVars == <<pc, argv, build, use_tls, ctx, sock, nconn, client, ssl, bytes,
              request_buffer, method, url, html_content, http_response,
              exit_status, signal, cause>>
envVars  == <<unread, wire, hs, rd, wr, chan, stream, closes, sess, shutdowns, frees,
              stored, memo>>
vars     == <<progVars, envVars>>

Conns == 1..MaxConns

ArgVectors == {<<>>, <<"-v", "--no-tls">>}

NoMemo == [conn |-> 0, req |-> "", resp |-> ""]

NothingStored == [method |-> 0, url |-> 0, html |-> 0, resp |-> 0]

NoChannel == [rd |-> "none", wr |-> "none"]

Init ==
    /\ pc = "args"
    /\ argv \in ArgVectors
    /\ build \in Builds
    /\ use_tls = TRUE
    /\ ctx = {}
    /\ sock = "none"
    /\ nconn = 0
    /\ client = 0
    /\ ssl = 0
    /\ bytes = 0
    /\ request_buffer = ""
    /\ method = ""
    /\ url = ""
    /\ html_content = ""
    /\ http_response = ""
    /\ exit_status = -1
    /\ signal = "none"
    /\ cause = "none"
    /\ unread = 0
    /\ wire = ""
    /\ hs = "none"
    /\ rd = "none"
    /\ wr = "none"
    /\ chan = NoChannel
    /\ stream = [c \in Conns |-> "unborn"]
    /\ closes = [c \in Conns |-> 0]
    /\ sess = [h \in Conns |-> "unborn"]
    /\ shutdowns = [h \in Conns |-> 0]
    /\ frees = [h \in Conns |-> 0]
    /\ stored = NothingStored
    /\ memo = NoMemo

\* exit(status): the process ends; nothing else changes.
Exit(status, why) ==
    /\ pc' = "exited"
    /\ exit_status' = status
    /\ cause' = why
    /\ signal' = "none"

\* The process is terminated by a signal.
Kill(sig, why) ==
    /\ pc' = "killed"
    /\ signal' = sig
    /\ cause' = why
    /\ exit_status' = exit_status

Goto(l) ==
    /\ pc' = l
    /\ UNCHANGED <<exit_status, signal, cause>>

(***************************************************************************)
(* Start-up.                                                               *)
(***************************************************************************)

\* for (i = 1; i < argc; i++) if (strcmp(argv[i], "--no-tls") == 0) ...
ParseArgs ==
    /\ pc = "args"
    /\ use_tls' = IF \E i \in 1..Len(argv) : argv[i] = "--no-tls"
                  THEN FALSE ELSE use_tls
    /\ Goto("init")
    /\ UNCHANGED <<argv, build, ctx, sock, nconn, client, ssl, bytes,
                   request_buffer, method, url, html_content, http_response>>
    /\ UNCHANGED envVars

\* if (use_tls) { init_openssl(); ctx = create_context(); ... }
\* created is whether SSL_CTX_new returned a context.
CreateContext(created) ==
    /\ pc = "init"
    /\ IF ~use_tls
         THEN Goto("socket") /\ ctx' = ctx
       ELSE IF created
         THEN Goto("configure") /\ ctx' = {"context"}
       ELSE Exit(EXIT_FAILURE, "SSL_CTX_new") /\ ctx' = ctx
    /\ UNCHANGED <<argv, build, use_tls, sock, nconn, client, ssl, bytes,
                   request_buffer, method, url, html_content, http_response>>
    /\ UNCHANGED envVars

LoadOutcomes == {"none", "certificate", "private_key", "trust_root"}

\* What the context holds when the first load to fail is failed: the loads
\* are made in the order certificate, private key, trust root.
Loaded(failed) ==
    CASE failed = "certificate" -> {}
      [] failed = "private_key" -> {"certificate"}
      [] failed = "trust_root"  -> {"certificate", "private_key"}
      [] OTHER                  -> {"certificate", "private_key", "trust_root"}

\* if (SSL_CTX_use_..._file(...) <= 0) { ERR_print_errors_fp(stderr); exit(EXIT_FAILURE); }
LoadFailureIsFatal_Ignored(failed) == FALSE
LoadFailureIsFatal(failed) == failed # "none"

\* configure_context(ctx): failed names the first load that fails, if any.
ConfigureContext(failed) ==
    /\ pc = "configure"
    /\ IF LoadFailureIsFatal(failed)
         THEN /\ Exit(EXIT_FAILURE, failed)
              /\ ctx' = ctx \cup Loaded(failed)
         ELSE /\ Goto("socket")
              /\ ctx' = ctx \cup Loaded(failed) \cup {"verify_peer"}
    /\ UNCHANGED <<argv, build, use_tls, sock, nconn, client, ssl, bytes,
                   request_buffer, method, url, html_content, http_response>>
    /\ UNCHANGED envVars

\* socket(), setsockopt(), bind(), listen(): each exits on failure.
SocketStep(from, to, call, ok) ==
    /\ pc = "socket"
    /\ sock = from
    /\ IF ok
         THEN /\ sock' = to
              /\ Goto(IF to = "listening" THEN "accept" ELSE "socket")
         ELSE /\ sock' = sock
              /\ Exit(EXIT_FAILURE, call)
    /\ UNCHANGED <<argv, build, use_tls, ctx, nconn, client, ssl, bytes,
                   request_buffer, method, url, html_content, http_response>>
    /\ UNCHANGED envVars

CreateSocket(ok) == SocketStep("none", "created", "socket", ok)
SetSockOpt(ok)   == SocketStep("created", "reuse", "setsockopt", ok)
Bind(ok)         == SocketStep("reuse", "bound", "bind", ok)
Listen(ok)       == SocketStep("bound", "listening", "listen", ok)


(***************************************************************************)
(* The accept loop.                                                        *)
(***************************************************************************)

\* What a peer may send on a connection ("" is a peer that sends nothing).
PeerSends ==
    { "",
      "GET /x HTTP/1.1\r\n\r\n",
      "POST /submit HTTP/1.1\r\n\r\n",
      "GET",
      " \r\n",
      "  GET\t/x",
      "GET" \o NUL \o "/x",
      Rep("M", METHOD_SIZE - 1) \o " /" \o Rep("a", URL_SIZE - 2),
      Rep("M", METHOD_SIZE) \o " /y",
      Rep("M", METHOD_SIZE + 4),
      "GET /" \o Rep("a", 499),
      "GET /" \o Rep("a", HTML_SIZE),
      "GET /" \o Rep("a", BUFFER_SIZE) \o " HTTP/1.1\r\n\r\n" }

\* int client = accept(sock, ...); if (client < 0) exit(EXIT_FAILURE);
Accept(ok) ==
    /\ pc = "accept"
    /\ IF ok
         THEN /\ nconn < MaxConns
              /\ nconn' = nconn + 1
              /\ client' = nconn + 1
              /\ stream' = [stream EXCEPT ![nconn + 1] = "open"]
              /\ Goto(IF use_tls THEN "ssl_new" ELSE "read")
         ELSE /\ Exit(EXIT_FAILURE, "accept")
              /\ UNCHANGED <<nconn, client, stream>>
    /\ UNCHANGED <<argv, build, use_tls, ctx, sock, ssl, bytes, request_buffer,
                   method, url, html_content, http_response>>
    /\ UNCHANGED <<unread, wire, hs, rd, wr, chan, closes, sess, shutdowns,
                   frees, stored, memo>>

\* ssl = SSL_new(ctx): the variable is assigned on every iteration, the
\* new session (fresh) when one was made and NULL when not.
NewHandle_KeepStale(made, old, fresh) == IF made THEN fresh ELSE old
NewHandle(made, old, fresh) == IF made THEN fresh ELSE 0

\* ssl = SSL_new(ctx); SSL_set_fd(ssl, client);
\* made is whether SSL_new returned a session.  SSL_set_fd on a null
\* session is undefined: the process is killed (segv) or the call returns.
SSLNew(made, segv) ==
    /\ pc = "ssl_new"
    /\ ssl' = NewHandle(made, ssl, nconn)
    /\ IF made
         THEN /\ ~segv
              /\ sess' = [sess EXCEPT ![nconn] = "new"]
              /\ Goto("handshake")
         ELSE /\ sess' = sess
              /\ IF segv THEN Kill("SIGSEGV", "SSL_set_fd") ELSE Goto("handshake")
    /\ UNCHANGED <<argv, build, use_tls, ctx, sock, nconn, client, bytes,
                   request_buffer, method, url, html_content, http_response>>
    /\ UNCHANGED <<unread, wire, hs, rd, wr, chan, stream, closes, shutdowns,
                   frees, stored, memo>>

\* if (SSL_accept(ssl) <= 0)
HandshakeFailed_Never(ret) == FALSE
HandshakeFailed_OnlyNegative(ret) == ret < 0
HandshakeFailed(ret) == ret <= 0

\* SSL_accept(ssl): ret is its return value.  On a null session the call is
\* undefined: the process is killed (segv) or the call returns a failure.
SSLAccept(ret, segv) ==
    /\ pc = "handshake"
    /\ IF ssl = 0 THEN ret <= 0 ELSE ~segv
    /\ IF segv
         THEN /\ Kill("SIGSEGV", "SSL_accept")
              /\ UNCHANGED <<hs, sess>>
         ELSE /\ hs' = IF ret > 0 THEN "ok" ELSE "failed"
              /\ sess' = IF ssl = 0 THEN sess
                         ELSE [sess EXCEPT
                                 ![ssl] = IF ret > 0 THEN "established" ELSE "failed"]
              /\ Goto(IF HandshakeFailed(ret) THEN "cleanup" ELSE "read")
    /\ UNCHANGED <<argv, build, use_tls, ctx, sock, nconn, client, ssl, bytes,
                   request_buffer, method, url, html_content, http_response>>
    /\ UNCHANGED <<unread, wire, rd, wr, chan, stream, closes, shutdowns,
                   frees, stored, memo>>

\* The byte count the read is given: sizeof(request_buffer) - 1.
ReadMax_Whole == BUFFER_SIZE
ReadMax == BUFFER_SIZE - 1

\* What one read of at most max bytes can return when the peer sends data.
ReadResults(data, max) == {-1, Min(Len(data), max)}

\* if (use_tls) { ... SSL_read ... SSL_write ... } else { ... read ... write ... }
\* The channel the request is read from and the response written to.
Channel_Raw(tls) == "raw"
Channel(tls) == IF tls THEN "session" ELSE "raw"

\* if (bytes > 0)
HasRequest_Always(n) == TRUE
HasRequest(n) == n > 0

\* char request_buffer[BUFFER_SIZE] = {0};
\* int bytes = SSL_read(ssl, request_buffer, sizeof(request_buffer) - 1);
\* int bytes = read(client, request_buffer, sizeof(request_buffer) - 1);
Read(data, n) ==
    /\ pc = "read"
    /\ unread' = IF n > 0 THEN Len(data) - n ELSE Len(data)
    /\ bytes' = n
    /\ rd' = IF n > 0 THEN "data" ELSE IF n = 0 THEN "eof" ELSE "failed"
    /\ request_buffer' = IF n > 0 THEN SubSeq(data, 1, n) ELSE ""
    /\ chan' = [chan EXCEPT !.rd = Channel(use_tls)]
    /\ Goto(IF HasRequest(n) THEN "respond" ELSE "cleanup")
    /\ UNCHANGED <<argv, build, use_tls, ctx, sock, nconn, client, ssl,
                   method, url, html_content, http_response>>
    /\ UNCHANGED <<wire, hs, wr, stream, closes, sess, shutdowns, frees,
                   stored, memo>>


\* request_buffer[bytes] = '\0'; ... sscanf ... sprintf ... sprintf
\* (lines 277-293 and 308-324): what the three calls leave in the four
\* buffers, and whether any of them stored past the end of its buffer.
BuildResponse(buf, m0, u0, tls, placement) ==
    LET r    == sscanf(buf, m0, u0, placement)
        html == HtmlContent(tls, r.method, r.url)
        resp == HttpResponse(html)
    IN  [method |-> r.method,
         url    |-> r.url,
         html   |-> html,
         resp   |-> resp,
         stored |-> [method |-> r.stored1, url |-> r.stored2,
                     html |-> Len(html) + 1, resp |-> Len(resp) + 1]]

\* Whether a store went past the end of its buffer.
Overflow(st) ==
    \/ st.method > METHOD_SIZE
    \/ st.url > URL_SIZE
    \/ st.html > HTML_SIZE
    \/ st.resp > BUFFER_SIZE

\* The handler from the terminator store to the second sprintf.  A store
\* past the end of method, url, html_content or http_response is undefined:
\* under the "trap" build it terminates the process, under the others main
\* goes on with what the placement left in the buffers.
\* (b ranges over a one-element set so that the result is computed once.)
Respond(remember) ==
    /\ pc = "respond"
    /\ \E b \in {BuildResponse(request_buffer, ZeroInit(method), ZeroInit(url),
                               use_tls, build)} :
           /\ stored' = b.stored
           /\ IF Overflow(b.stored) /\ build = "trap"
                THEN /\ Kill("SIGABRT", "overflow")
                     /\ ~remember
                     /\ UNCHANGED <<method, url, html_content, http_response, memo>>
                ELSE /\ Goto("write")
                     /\ method' = b.method
                     /\ url' = b.url
                     /\ html_content' = b.html
                     /\ http_response' = b.resp
                     /\ IF remember
                          THEN /\ memo = NoMemo
                               /\ memo' = [conn |-> nconn, req |-> request_buffer,
                                           resp |-> b.resp]
                          ELSE memo' = memo
    /\ UNCHANGED <<argv, build, use_tls, ctx, sock, nconn, client, ssl, bytes,
                   request_buffer>>
    /\ UNCHANGED <<unread, wire, hs, rd, wr, chan, stream, closes, sess,
                   shutdowns, frees>>

\* What one write of len bytes can return: all of them, an error, or (on
\* the raw stream) fewer.  SSL_write without partial-write mode sends the
\* whole record or fails.
WriteResults(len, tls) ==
    {-1, len} \cup (IF tls THEN {}
                    ELSE {k \in {len \div 2, len - 1} : 0 < k /\ k < len})

\* The statement after the write: its return value is discarded, so the
\* handler leaves the block for the cleanup whatever it was.
AfterWrite_Retry(ret, len) == IF 0 < ret /\ ret < len THEN "write" ELSE "cleanup"
AfterWrite(ret, len) == "cleanup"

\* SSL_write(ssl, http_response, strlen(http_response));
\* write(client, http_response, strlen(http_response));
\* ret is the return value, which main ignores; strlen(http_response) is
\* Len(http_response).  A write on a stream the peer has reset fails with
\* EPIPE and raises SIGPIPE, which main neither ignores nor handles, so it
\* terminates the process (sigpipe).
Write(sigpipe) ==
    /\ pc = "write"
    /\ \E ret \in WriteResults(Len(http_response), use_tls) :
          /\ sigpipe => ret = -1
          /\ wire' = IF ret > 0 THEN wire \o SubSeq(http_response, 1, ret) ELSE wire
          /\ wr' = IF ret = -1 THEN "failed"
                   ELSE IF ret < Len(http_response) THEN "short" ELSE "full"
          /\ IF sigpipe THEN Kill("SIGPIPE", "write")
             ELSE Goto(AfterWrite(ret, Len(http_response)))
    /\ chan' = [chan EXCEPT !.wr = Channel(use_tls)]
    /\ UNCHANGED <<argv, build, use_tls, ctx, sock, nconn, client, ssl, bytes,
                   request_buffer, method, url, html_content, http_response>>
    /\ UNCHANGED <<unread, hs, rd, stream, closes, sess, shutdowns, frees,
                   stored, memo>>

\* if (use_tls && ssl)
SessionCleanupDue_IfEstablished == use_tls /\ ssl # 0 /\ hs = "ok"
SessionCleanupDue == use_tls /\ ssl # 0

\* SSL_free(ssl) releases the session and the reference it holds on the
\* context; the context itself, which main still holds, is left as it is.
ContextAfterFree_Released(c) == {}
ContextAfterFree(c) == c

\* close(client) is unconditional.
CloseDue_IfServed == hs # "failed"
CloseDue == TRUE

\* if (use_tls && ssl) { SSL_shutdown(ssl); SSL_free(ssl); } close(client);
\* SSL_shutdown on an established session writes the closure alert; on a
\* stream the peer has reset that write raises SIGPIPE (sigpipe).
\* The block's buffers and the connection's record end here.
Cleanup(sigpipe) ==
    /\ pc = "cleanup"
    /\ sigpipe => SessionCleanupDue /\ sess[ssl] = "established"
    /\ shutdowns' = IF SessionCleanupDue
                      THEN [shutdowns EXCEPT ![ssl] = @ + 1] ELSE shutdowns
    /\ IF sigpipe
         THEN /\ Kill("SIGPIPE", "SSL_shutdown")
              /\ sess' = [sess EXCEPT ![ssl] = "shutdown"]
              /\ UNCHANGED <<ctx, frees, closes, stream, bytes, request_buffer,
                             html_content, http_response, unread, wire, hs, rd,
                             wr, chan, stored>>
         ELSE /\ Goto("accept")
              /\ frees' = IF SessionCleanupDue
                            THEN [frees EXCEPT ![ssl] = @ + 1] ELSE frees
              /\ sess' = IF SessionCleanupDue
                           THEN [sess EXCEPT ![ssl] = "freed"] ELSE sess
              /\ ctx' = IF SessionCleanupDue THEN ContextAfterFree(ctx) ELSE ctx
              /\ closes' = IF CloseDue
                             THEN [closes EXCEPT ![client] = @ + 1] ELSE closes
              /\ stream' = IF CloseDue
                             THEN [stream EXCEPT ![client] = "closed"] ELSE stream
              /\ bytes' = 0
              /\ request_buffer' = ""
              /\ html_content' = ""
              /\ http_response' = ""
              /\ unread' = 0
              /\ wire' = ""
              /\ hs' = "none"
              /\ rd' = "none"
              /\ wr' = "none"
              /\ chan' = NoChannel
              /\ stored' = NothingStored
    /\ UNCHANGED <<argv, build, use_tls, sock, nconn, client, ssl,
                   method, url, memo>>

(***************************************************************************)
(* The specification.                                                      *)
(***************************************************************************)
Next ==
    \/ ParseArgs
    \/ \E created \in BOOLEAN : CreateContext(created)
    \/ \E failed \in LoadOutcomes : ConfigureContext(failed)
    \/ \E ok \in BOOLEAN : CreateSocket(ok)
    \/ \E ok \in BOOLEAN : SetSockOpt(ok)
    \/ \E ok \in BOOLEAN : Bind(ok)
    \/ \E ok \in BOOLEAN : Listen(ok)
    \/ \E ok \in BOOLEAN : Accept(ok)
    \/ \E made \in BOOLEAN, segv \in BOOLEAN : SSLNew(made, segv)
    \/ \E ret \in {-1, 0, 1}, segv \in BOOLEAN : SSLAccept(ret, segv)
    \/ \E data \in PeerSends : \E n \in ReadResults(data, ReadMax) : Read(data, n)
    \/ \E remember \in BOOLEAN : Respond(remember)
    \/ \E sigpipe \in BOOLEAN : Write(sigpipe)
    \/ \E sigpipe \in BOOLEAN : Cleanup(sigpipe)

Spec == Init /\ [][Next]_vars

(***************************************************************************)
(* Properties.                                                             *)
(***************************************************************************)

Terminated == pc \in {"exited", "killed"}

\* The connections whose handling is over: all accepted ones when main is
\* back at accept (or left the loop there), the earlier ones otherwise.
Handled ==
    {c \in Conns : c < nconn \/ (c = nconn /\ (pc = "accept" \/ cause = "accept"))}

C2_ResponseOnlyAfterRequest ==
    /\ (pc \in {"respond", "write"} \/ wr # "none" \/ wire # "")
          => (~use_tls \/ hs = "ok") /\ bytes > 0 /\ rd = "data"
    /\ hs = "failed" => pc = "cleanup" /\ rd = "none" /\ wr = "none" /\ wire = ""
    /\ rd \in {"eof", "failed"}
          => pc \in {"cleanup", "killed"} /\ wr = "none" /\ wire = ""

\* A failed handshake, the handler in the cleanup with nothing sent.
C2_Witness ==
    /\ pc = "cleanup"
    /\ use_tls
    /\ hs = "failed"
    /\ wire = ""

\* C3: after a handshake failure, a zero-byte or failed read, or a failed or
\* short write on a connection, the process has not terminated.
C3_ErrorsContained ==
    (hs = "failed" \/ rd \in {"eof", "failed"} \/ wr \in {"failed", "short"})
        => ~Terminated

\* The index of the first occurrence of pat in s at or after i; 0 if none.
RECURSIVE Find(_, _, _)
Find(s, pat, i) ==
    IF i + Len(pat) - 1 > Len(s) THEN 0
    ELSE IF SubSeq(s, i, i + Len(pat) - 1) = pat THEN i
    ELSE Find(s, pat, i + 1)

\* The first line of a response that holds a complete one.
HasFirstLine(s) == Find(s, "\r\n", 1) # 0
FirstLine(s) == SubSeq(s, 1, Find(s, "\r\n", 1) - 1)

\* C4: every response handed to the write, and every status line that
\* reaches a peer, is exactly "HTTP/1.1 200 OK", whatever the request.
C4_StatusAlways200 ==
    /\ pc = "write"
          => HasFirstLine(http_response) /\ FirstLine(http_response) = "HTTP/1.1 200 OK"
    /\ HasFirstLine(wire) => FirstLine(wire) = "HTTP/1.1 200 OK"

\* A request with no token at all was answered in full with status 200.
C4_Witness ==
    /\ wr = "full"
    /\ request_buffer = " \r\n"
    /\ method = "" /\ url = ""
    /\ FirstLine(wire) = "HTTP/1.1 200 OK"

\* The value of a decimal digit string.
DigitVal(c) == CHOOSE d \in 0..9 : Digit(d) = c

RECURSIVE ParseDec(_)
ParseDec(t) ==
    IF t = "" THEN 0
    ELSE 10 * ParseDec(SubSeq(t, 1, Len(t) - 1)) + DigitVal(At(t, Len(t)))

\* The value of the Content-Length header of a response (-1 if absent) and
\* the number of bytes after its blank line (-2 if it has no blank line).
ContentLength(s) ==
    LET p == Find(s, "Content-Length: ", 1)
        e == IF p = 0 THEN 0 ELSE Find(s, "\r\n", p)
    IN  IF p = 0 \/ e = 0 THEN -1
        ELSE ParseDec(SubSeq(s, p + Len("Content-Length: "), e - 1))

BodyLength(s) ==
    LET h == Find(s, "\r\n\r\n", 1)
    IN  IF h = 0 THEN -2 ELSE Len(s) - (h + 3)

\* C5: in the bytes delivered to a peer, the Content-Length value equals the
\* number of bytes that follow the blank line.
C5_ContentLengthMatchesDelivered ==
    wire # "" => ContentLength(wire) = BodyLength(wire)

\* C6: parsing stores at most 16 bytes into method and at most 256 into url,
\* and no store past the end of a buffer ends the process.
C6_TokensWithinBounds ==
    /\ stored.method <= METHOD_SIZE
    /\ stored.url <= URL_SIZE
    /\ cause # "overflow"

\* C7: a request that an earlier connection received gets, on a later
\* connection, a response byte-identical to the one built then.
C7_SameRequestSameResponse ==
    (pc = "write" /\ memo.conn # 0 /\ memo.conn < nconn /\ memo.req = request_buffer)
        => http_response = memo.resp

\* The third connection repeats the first one's request, which has no
\* target, with another connection in between.
C7_Witness ==
    /\ pc = "write"
    /\ nconn = 3
    /\ memo.conn = 1
    /\ memo.req = request_buffer
    /\ request_buffer = "GET"
    /\ http_response = memo.resp

\* C8: when creating the context or loading the certificate, the key or the
\* trust root fails, the process has exited with a non-zero status and no
\* socket was created and no connection accepted; and in TLS mode a socket
\* exists only once the context holds all three.
C8_StartupFailureBeforeSocket ==
    /\ cause \in {"SSL_CTX_new", "certificate", "private_key", "trust_root"}
          => /\ pc = "exited"
             /\ exit_status # 0
             /\ sock = "none"
             /\ nconn = 0
    /\ (use_tls /\ sock # "none")
          => {"context", "certificate", "private_key", "trust_root"} \subseteq ctx

\* The private key failed to load: exit with EXIT_FAILURE before socket().
C8_Witness ==
    /\ pc = "exited"
    /\ cause = "private_key"
    /\ exit_status = EXIT_FAILURE
    /\ sock = "none"

\* C9: a failed accept ends the process with a non-zero status, and once the
\* server listens nothing but a failed accept ends the process.
C9_OnlyAcceptFailureTerminates ==
    /\ cause = "accept" => pc = "exited" /\ exit_status # 0
    /\ (sock = "listening" /\ Terminated) => cause = "accept"

\* The first and second white-space-delimited tokens of the C string in a
\* buffer ("" when it has no such token).
FirstToken(buf) == ScanToken(CString(buf), 1).tok
SecondToken(buf) == ScanToken(CString(buf), ScanToken(CString(buf), 1).next).tok

\* C10: once a non-empty request was read, the process goes on to build the
\* response, and the body echoes the buffer's first white-space-delimited
\* token as method and its second as target.
C10_EchoesFirstTwoTokens ==
    (rd = "data" /\ pc # "respond")
        => html_content = HtmlContent(use_tls, FirstToken(request_buffer),
                                      SecondToken(request_buffer))

\* The handler's positions between the accept and the end of the cleanup.
InHandler == pc \in {"ssl_new", "handshake", "read", "respond", "write", "cleanup"}

\* C11: SSL_shutdown is called in a step exactly when that step is the
\* cleanup of a connection whose handshake succeeded in TLS mode (so never
\* on a session whose handshake failed), and the handle is non-null during
\* handling only when the handshake has succeeded.
C11_EndSessionIffEstablished ==
    [][ /\ (shutdowns' # shutdowns) <=> (pc = "cleanup" /\ use_tls /\ hs = "ok")
        /\ (pc = "cleanup" /\ ssl # 0) => hs = "ok" ]_vars

\* The phases of a session object: SSL_new makes it ("new", handshaking),
\* SSL_accept establishes it or fails, the cleanup shuts it down and frees it.
Closed == {"shutdown", "freed"}

SessionMoves ==
    { <<"unborn", "new">>,
      <<"new", "established">>, <<"new", "failed">>,
      <<"failed", "freed">>,
      <<"established", "shutdown">>, <<"established", "freed">> }

\* C12: every session moves only forward through unborn, new, established
\* and closed, a session whose handshake failed is closed without having
\* been established, a closed session stays closed and is not shut down or
\* freed again, the TLS read and write are made only on an established
\* session, and no step of the handler uses a closed session.
C12_SessionLifecycle ==
    [][ /\ \A h \in Conns :
              /\ sess'[h] = sess[h] \/ <<sess[h], sess'[h]>> \in SessionMoves
              /\ sess[h] \in Closed
                    => shutdowns'[h] = shutdowns[h] /\ frees'[h] = frees[h]
        /\ (use_tls /\ pc \in {"read", "respond", "write"})
              => ssl # 0 /\ sess[ssl] = "established"
        /\ (use_tls /\ ssl # 0 /\ pc \in {"handshake", "read", "write", "cleanup"})
              => sess[ssl] \notin Closed ]_vars

\* The first connection was served over an established session that is now
\* freed; the second one's handshake failed and it is in the cleanup.
C12_Witness ==
    /\ pc = "cleanup"
    /\ nconn = 2
    /\ memo.conn = 1
    /\ sess[1] = "freed"
    /\ sess[2] = "failed"

\* C13: in plain mode no session object exists, none was shut down
\* or freed, and the read and the write went over the raw stream; in TLS
\* mode the read and the write went through the session, which was
\* established, and never over the raw stream.
C13_ChannelSeparation ==
    /\ rd # "none" <=> chan.rd # "none"
    /\ wr # "none" <=> chan.wr # "none"
    /\ ~use_tls
          => /\ ssl = 0
             /\ \A h \in Conns : sess[h] = "unborn" /\ shutdowns[h] = 0 /\ frees[h] = 0
             /\ chan.rd \in {"none", "raw"}
             /\ chan.wr \in {"none", "raw"}
    /\ use_tls
          => /\ chan.rd \in {"none", "session"}
             /\ chan.wr \in {"none", "session"}
             /\ chan.rd # "none" => ssl # 0 /\ sess[ssl] \in {"established", "shutdown"}

\* The second connection of a TLS server was answered in full through its
\* session.
C13_Witness ==
    /\ use_tls
    /\ nconn = 2
    /\ wr = "full"
    /\ chan = [rd |-> "session", wr |-> "session"]
    /\ sess[ssl] = "established"

\* C14: the first sprintf stores at most 1024 bytes into html_content and
\* the second at most 4096 into http_response, terminators included (every
\* request read is at most 4095 bytes long).
C14_FormattedOutputFits ==
    /\ Len(request_buffer) <= BUFFER_SIZE - 1
    /\ stored.html <= HTML_SIZE
    /\ stored.resp <= BUFFER_SIZE

\* C15: a connection is read at most once, the read returns at most 4095
\* bytes, the terminator index (bytes) lies inside the 4096-byte buffer, and
\* from the read until the cleanup nothing more is taken from the peer: the
\* unread bytes and the buffer stay as the read left them.
C15_BoundedSingleRead ==
    [][ /\ pc = "read" => rd = "none" /\ request_buffer = ""
        /\ rd' # "none" => pc' # "read"
        /\ bytes' <= BUFFER_SIZE - 1
        /\ (bytes' >= 0 => bytes' < BUFFER_SIZE) /\ Len(request_buffer') <= BUFFER_SIZE - 1
        /\ rd' = "data" => Len(request_buffer') = bytes'
        /\ (rd # "none" /\ pc' # "accept")
              => unread' = unread /\ request_buffer' = request_buffer /\ rd' = rd ]_vars

\* A peer sent more than the read takes: 4095 bytes were read, the rest
\* is still unread when the response has been written.
C15_Witness ==
    /\ pc = "cleanup"
    /\ rd = "data"
    /\ bytes = BUFFER_SIZE - 1
    /\ unread > 0
    /\ wr # "none"

\* The connections whose stream is open, and the sessions that exist and
\* have not been freed.
OpenStreams == {c \in Conns : stream[c] = "open"}
LiveSessions == {h \in Conns : sess[h] \in {"new", "established", "failed", "shutdown"}}

\* C16: at most one accepted connection is open, and it is the latest one
\* accepted; connections are numbered in acceptance order and all earlier
\* ones are closed, their sessions freed; when main is at accept nothing of
\* any connection is left: no open stream, no live session, empty buffers.
C16_StrictlySerial ==
    /\ Cardinality(OpenStreams) <= 1
    /\ OpenStreams \subseteq {nconn}
    /\ LiveSessions \subseteq {nconn}
    /\ \A c \in Conns :
          /\ c < nconn => stream[c] = "closed" /\ closes[c] = 1
          /\ c > nconn => stream[c] = "unborn"
    /\ InHandler => client = nconn /\ stream[nconn] = "open"
    /\ pc = "accept"
          => /\ OpenStreams = {}
             /\ LiveSessions = {}
             /\ request_buffer = "" /\ html_content = "" /\ http_response = ""
             /\ bytes = 0

\* The third connection is being handled while the first two are closed.
C16_Witness ==
    /\ nconn = 3
    /\ pc = "write"
    /\ OpenStreams = {3}
    /\ stream[1] = "closed" /\ stream[2] = "closed"

\* Whether p is a strict prefix of s.
StrictPrefix(p, s) == Len(p) < Len(s) /\ p = SubSeq(s, 1, Len(p))

\* C17: a connection's response is written at most once: the write is
\* reached with nothing written yet, and once it has returned, whether in
\* full, short or with an error, the handler is in the cleanup (a write that
\* raised SIGPIPE has not returned); the peer then holds the whole response,
\* a strict prefix of it, or nothing.
C17_SingleWriteNoRetry ==
    /\ pc = "write" => wr = "none" /\ wire = ""
    /\ wr # "none" => pc \in {"cleanup", "killed"}
    /\ (wr # "none" /\ pc = "killed") => signal = "SIGPIPE"
    /\ wr = "full" => wire = http_response
    /\ wr = "short" => wire # "" /\ StrictPrefix(wire, http_response)
    /\ wr = "failed" => wire = ""

\* A short write: the handler is in the cleanup and the peer holds a
\* non-empty strict prefix of the response.
C17_Witness ==
    /\ pc = "cleanup"
    /\ wr = "short"
    /\ wire # ""
    /\ StrictPrefix(wire, http_response)

\* What start-up leaves in the flag and in the context.
ModeAtStart == ~(\E i \in 1..Len(argv) : argv[i] = "--no-tls")
ContextAtStart ==
    IF ModeAtStart
      THEN {"context", "certificate", "private_key", "trust_root", "verify_peer"}
      ELSE {}

\* C18: once the server listens, no step changes use_tls or ctx: through
\* accept, handshake, read, parse, respond and cleanup of every connection
\* both have the value start-up gave them, so a connection's cleanup tests
\* the same flag its handling branched on.
C18_ModeAndContextUnchanged ==
    [][ sock = "listening"
          => /\ use_tls' = use_tls /\ ctx' = ctx
             /\ use_tls = ModeAtStart /\ ctx = ContextAtStart
             /\ use_tls' = ModeAtStart /\ ctx' = ContextAtStart ]_vars

\* Two TLS connections were handled and their sessions freed; the third is
\* in its cleanup with the flag and the context as start-up left them.
C18_Witness ==
    /\ nconn = 3
    /\ pc = "cleanup"
    /\ frees[1] = 1 /\ frees[2] = 1
    /\ use_tls = ModeAtStart
    /\ ctx = ContextAtStart
    /\ "verify_peer" \in ctx

\* C19: when SSL_new returned no session, no session call is made on the
\* null handle: main is never past SSL_set_fd, about to call SSL_accept,
\* with ssl null, and neither call has ended the process.
C19_NoOperationOnAbsentSession ==
    /\ ~(use_tls /\ pc = "handshake" /\ ssl = 0)
    /\ cause \notin {"SSL_set_fd", "SSL_accept"}

\* The steps of the handler that use the session handle.
UsesHandle == use_tls /\ pc \in {"handshake", "read", "respond", "write", "cleanup"}

\* C20: no session is shut down or freed twice; while a connection is
\* handled the handle is null or the session made for that very connection,
\* which has not been freed; a freed session's handle is only ever held,
\* unused, between the cleanup and the next SSL_new.
C20_StaleHandleNeverReused ==
    /\ \A h \in Conns :
          /\ shutdowns[h] <= 1 /\ frees[h] <= 1
          /\ sess[h] = "freed" => frees[h] = 1 /\ h <= nconn
    /\ UsesHandle => ssl \in {0, nconn}
    /\ (UsesHandle /\ ssl # 0) => sess[ssl] # "freed" /\ frees[ssl] = 0
    /\ (ssl # 0 /\ sess[ssl] = "freed") => pc \in {"accept", "ssl_new", "exited"}

\* The first connection's session was freed and its handle left in ssl; on
\* the second connection SSL_new returned NULL, which replaced it; the third
\* connection has its own established session and is in the cleanup.
C20_Witness ==
    /\ nconn = 3
    /\ pc = "cleanup"
    /\ ssl = 3
    /\ sess[1] = "freed" /\ frees[1] = 1
    /\ sess[2] = "unborn"
    /\ sess[3] = "established" /\ frees[3] = 0

=============================================================================
